---- MODULE Spec2Model ----
(***************************************************************************)
(* A model of the ctestfw execution-and-verification pipeline:             *)
(*   CompilePlan.argv, CompilerRunner.run/compile, detect_artifact_kind,   *)
(*   the built-in assertions, TestCase.run, TestSuite.run and              *)
(*   ConsoleReporter.render.                                               *)
(*                                                                         *)
(* Conventions                                                             *)
(*   - Optional[T] is a sequence: <<>> is None, <<v>> is the value v.      *)
(*   - A pathlib.Path is [abs, parts]; Str renders it as Python's str().   *)
(*   - A dict is a TLA+ function; the empty dict is <<>> restricted to {}. *)
(***************************************************************************)
EXTENDS Integers, Sequences, FiniteSets, TLC

VARIABLES
    \* ---- TestSuite.run / TestCase.run / ConsoleReporter.render ----
    cases,      \* TestSuite.cases
    host,       \* what platform.system() / platform.machine() report
    pc,         \* position of the sequential driver
    idx,        \* 1-based index of the case the for-loop is at
    fs,         \* the filesystem: path -> node
    ws,         \* Optional: the TemporaryDirectory of the running case
    res,        \* Optional: the CompileResult of the running case
    ai,         \* 1-based index of the next assertion to evaluate
    errors,     \* the errors list of the running TestCase.run
    reports,    \* the reports list of TestSuite.run
    exc,        \* the exception propagating out of TestSuite.run ("" if none)
    status,     \* Optional: what ConsoleReporter.render returned
    summary,    \* Optional: the passed/total line render printed
    log,        \* history: the steps taken, for ordering properties
    \* ---- pure operations applied to drawn inputs ----
    op,         \* which operation was applied ("" before any)
    arg,        \* its input
    out         \* its result

suiteVars == <<cases, host, pc, idx, fs, ws, res, ai, errors, reports, exc,
               status, summary, log>>
callVars == <<op, arg, out>>
vars == <<cases, host, pc, idx, fs, ws, res, ai, errors, reports, exc,
          status, summary, log, op, arg, out>>

\* ------------------------------------------------------------------ bounds
MaxCases == 3      \* cases in a suite
MaxArgs == 2       \* sources, and extra arguments, of a plan
MaxArgv == 4       \* tokens of an executed argument vector
MaxNeedles == 2    \* tokens of an expected subsequence
MaxRerunCases == 2 \* cases in a suite that is run twice

\* ------------------------------------------------------------------ helpers
Some(v) == <<v>>
IsNone(o) == Len(o) = 0
Get(o) == o[1]

RECURSIVE SeqsUpTo(_, _)
SeqsUpTo(S, n) ==
    IF n = 0 THEN {<<>>}
    ELSE LET shorter == SeqsUpTo(S, n - 1)
         IN shorter \cup {Append(s, x) : s \in {t \in shorter : Len(t) = n - 1}, x \in S}

RECURSIVE JoinStr(_, _)
JoinStr(ss, sep) ==
    IF Len(ss) = 0 THEN ""
    ELSE IF Len(ss) = 1 THEN ss[1]
    ELSE ss[1] \o sep \o JoinStr(Tail(ss), sep)

\* Python's repr of a list of str, as an f-string prints it.
ReprList(ss) == "[" \o JoinStr([i \in 1..Len(ss) |-> "'" \o ss[i] \o "'"], ", ") \o "]"

\* ------------------------------------------------------------------ pathlib
P(isAbs, parts) == [abs |-> isAbs, parts |-> parts]

Str(p) ==
    IF p.abs THEN "/" \o JoinStr(p.parts, "/")
    ELSE IF Len(p.parts) = 0 THEN "."
    ELSE JoinStr(p.parts, "/")

\* pathlib's a / b: an absolute right operand replaces the left one.
PathJoin(a, b) == IF b.abs THEN b ELSE P(a.abs, a.parts \o b.parts)

PathName(p) == IF Len(p.parts) = 0 THEN "" ELSE p.parts[Len(p.parts)]

\* str(s).startswith("/")
StartsWithSlash(p) == p.abs

IsUnder(p, dir) ==
    /\ p.abs = dir.abs
    /\ Len(p.parts) > Len(dir.parts)
    /\ SubSeq(p.parts, 1, Len(dir.parts)) = dir.parts

\* ------------------------------------------------------------------ plan.py
CompilePlan(name, sources, o, extra_args) ==
    [name |-> name, sources |-> sources, out |-> o, extra_args |-> extra_args]

\* A variant of PlanArgv that puts the output flag after the extra arguments.
PlanArgvFlagLast(plan) ==
    [i \in 1..Len(plan.sources) |-> Str(plan.sources[i])]
    \o plan.extra_args
    \o (IF ~IsNone(plan.out) THEN <<"-o", Str(Get(plan.out))>> ELSE <<>>)

PlanArgv(plan) ==
    [i \in 1..Len(plan.sources) |-> Str(plan.sources[i])]
    \o (IF ~IsNone(plan.out) THEN <<"-o", Str(Get(plan.out))>> ELSE <<>>)
    \o plan.extra_args

\* ------------------------------------------------------------------ platform.py
\* system and machine are the lower-cased host strings; "armv7l" stands for
\* the machine strings that start with "armv7".
detect_platform(system, machine) ==
    [os |-> CASE system = "darwin" -> "MACOS"
              [] system = "linux" -> "LINUX"
              [] system = "windows" -> "WINDOWS"
              [] OTHER -> "OTHER",
     arch |-> CASE machine \in {"x86_64", "amd64"} -> "X86_64"
                [] machine \in {"arm64", "aarch64"} -> "ARM64"
                [] machine \in {"i386", "i686", "x86"} -> "X86_32"
                [] machine \in {"armv7l", "arm"} -> "ARM32"
                [] OTHER -> "OTHER",
     machine |-> machine,
     system |-> system]

\* ------------------------------------------------------------------ runner.py
EmptyDict == [k \in {} |-> ""]

\* dict.update
DictUpdate(d, e) ==
    [k \in (DOMAIN d) \cup (DOMAIN e) |-> IF k \in DOMAIN e THEN e[k] ELSE d[k]]

\* bool(d) for an Optional[Dict]: None and the empty dict are both falsy.
Truthy(od) == ~IsNone(od) /\ DOMAIN Get(od) # {}

\* runner.py:28-30: merged_env
MergedEnv(default_env, env) ==
    LET base == IF Truthy(default_env) THEN Get(default_env) ELSE EmptyDict
    IN IF Truthy(env) THEN DictUpdate(base, Get(env)) ELSE base

\* runner.py:35 and :46: what subprocess.run and RunResult get as env;
\* None makes the child inherit the ambient environment.
ChildEnv(default_env, env) ==
    LET merged == MergedEnv(default_env, env)
    IN IF DOMAIN merged # {} THEN Some(merged) ELSE <<>>

default_timeout_s == 20

\* runner.py:38: timeout_s or default_timeout_s
AppliedTimeout(timeout_s, dflt) ==
    IF ~IsNone(timeout_s) /\ Get(timeout_s) # 0 THEN Get(timeout_s) ELSE dflt

\* runner.py:27
RunnerArgv(executable, args) == <<Str(executable)>> \o args

\* ------------------------------------------------------------------ inspect/filetype.py
PrefixLen == 64

Min(a, b) == IF a < b THEN a ELSE b

\* _read_prefix: f.read(n) of a readable regular file
ReadPrefix(data, n) == SubSeq(data, 1, Min(n, Len(data)))

\* int.from_bytes(data[0:4], byteorder="big"), as its four base-256 digits
\* (most significant first): the values exceed TLC's 32-bit integers.
Magic(data) == <<data[1], data[2], data[3], data[4]>>
\* int.from_bytes(data[0:4], byteorder="little"), likewise
MagicLE(data) == <<data[4], data[3], data[2], data[1]>>

ElfMagic == <<127, 69, 76, 70>>     \* b"\x7fELF"
BitcodeMagic == <<66, 67, 192, 222>>    \* b"BC\xc0\xde"
\* 0xFEEDFACE, 0xFEEDFACF, 0xCAFEBABE, 0xCEFAEDFE, 0xCFFAEDFE, 0xBEBAFECA
macho_magics == {<<254, 237, 250, 206>>, <<254, 237, 250, 207>>, <<202, 254, 186, 190>>,
                 <<206, 250, 237, 254>>, <<207, 250, 237, 254>>, <<190, 186, 254, 202>>}

IsCont(b) == b >= 128 /\ b <= 191

\* The number of bytes of the well-formed UTF-8 sequence starting at data[i],
\* 0 when data[i] starts none (the "ignore" handler then drops the byte).
Utf8Len(data, i) ==
    LET b == data[i]
        n == Len(data)
        c(k) == i + k <= n /\ IsCont(data[i + k])
    IN IF b < 128 THEN 1
       ELSE IF b >= 194 /\ b <= 223 /\ c(1) THEN 2
       ELSE IF b >= 224 /\ b <= 239 /\ c(1) /\ c(2)
               /\ (b = 224 => data[i + 1] >= 160)
               /\ (b = 237 => data[i + 1] <= 159) THEN 3
       ELSE IF b >= 240 /\ b <= 244 /\ c(1) /\ c(2) /\ c(3)
               /\ (b = 240 => data[i + 1] >= 144)
               /\ (b = 244 => data[i + 1] <= 143) THEN 4
       ELSE 0

Utf8Char(data, i, k) ==
    CASE k = 1 -> data[i]
      [] k = 2 -> (data[i] - 192) * 64 + (data[i + 1] - 128)
      [] k = 3 -> ((data[i] - 224) * 64 + (data[i + 1] - 128)) * 64 + (data[i + 2] - 128)
      [] k = 4 -> (((data[i] - 240) * 64 + (data[i + 1] - 128)) * 64
                   + (data[i + 2] - 128)) * 64 + (data[i + 3] - 128)

\* data.decode("utf-8", errors="ignore"), as a sequence of code points
RECURSIVE DecodeFrom(_, _)
DecodeFrom(data, i) ==
    IF i > Len(data) THEN <<>>
    ELSE LET k == Utf8Len(data, i)
         IN IF k = 0 THEN DecodeFrom(data, i + 1)
            ELSE <<Utf8Char(data, i, k)>> \o DecodeFrom(data, i + k)

Decode(data) == DecodeFrom(data, 1)

\* str.isspace for one code point
IsSpace(ch) ==
    \/ ch \in 9..13 \/ ch \in 28..32
    \/ ch \in {133, 160, 5760, 8232, 8233, 8239, 8287, 12288}
    \/ ch \in 8192..8202

RECURSIVE LStrip(_)
LStrip(txt) ==
    IF Len(txt) > 0 /\ IsSpace(txt[1]) THEN LStrip(Tail(txt)) ELSE txt

StartsWith(txt, pre) ==
    Len(txt) >= Len(pre) /\ SubSeq(txt, 1, Len(pre)) = pre

\* needle in txt
Contains(txt, needle) ==
    \E i \in 0..(Len(txt) - Len(needle)) :
        SubSeq(txt, i + 1, i + Len(needle)) = needle

ModuleIdMarker == <<59, 32, 77, 111, 100, 117, 108, 101, 73, 68, 32, 61>>
SourceFilenameMarker ==
    <<115, 111, 117, 114, 99, 101, 95, 102, 105, 108, 101, 110, 97, 109, 101>>
TargetTripleMarker == <<116, 97, 114, 103, 101, 116, 32, 116, 114, 105, 112, 108, 101>>

\* A variant of KindOfPrefix that looks for the IR-text markers before the
\* magic numbers.
KindOfPrefixTextFirst(data) ==
    LET head == LStrip(Decode(data))
    IN IF \/ StartsWith(head, ModuleIdMarker)
          \/ StartsWith(head, SourceFilenameMarker)
          \/ Contains(SubSeq(head, 1, Min(120, Len(head))), TargetTripleMarker)
       THEN "LLVM_IR_TEXT"
       ELSE IF Len(data) >= 4 /\ SubSeq(data, 1, 4) = ElfMagic THEN "ELF"
       ELSE IF Len(data) >= 4
               /\ (Magic(data) \in macho_magics \/ MagicLE(data) \in macho_magics)
           THEN "MACHO"
       ELSE IF Len(data) >= 4 /\ SubSeq(data, 1, 4) = BitcodeMagic THEN "LLVM_BITCODE"
       ELSE "UNKNOWN"

\* detect_artifact_kind on the bytes _read_prefix returned
KindOfPrefix(data) ==
    IF Len(data) >= 4 /\ SubSeq(data, 1, 4) = ElfMagic THEN "ELF"
    ELSE IF Len(data) >= 4 /\ (Magic(data) \in macho_magics \/ MagicLE(data) \in macho_magics)
        THEN "MACHO"
    ELSE IF Len(data) >= 4 /\ SubSeq(data, 1, 4) = BitcodeMagic THEN "LLVM_BITCODE"
    ELSE LET head == LStrip(Decode(data))
         IN IF \/ StartsWith(head, ModuleIdMarker)
               \/ StartsWith(head, SourceFilenameMarker)
               \/ Contains(SubSeq(head, 1, Min(120, Len(head))), TargetTripleMarker)
            THEN "LLVM_IR_TEXT"
            ELSE "UNKNOWN"

\* ------------------------------------------------------------------ the filesystem
Dir == [type |-> "dir", readable |-> TRUE, data |-> <<>>]
File(data) == [type |-> "file", readable |-> TRUE, data |-> data]
Unreadable(data) == [type |-> "file", readable |-> FALSE, data |-> data]

Exists(f, p) == p \in DOMAIN f

\* p.stat().st_size
StatSize(f, p) == IF f[p].type = "dir" THEN 4096 ELSE Len(f[p].data)

\* detect_artifact_kind(p) for an existing p: p.open("rb") raises on a
\* directory and on a file the process may not read.
detect_artifact_kind(f, p) ==
    IF f[p].type = "dir" THEN [raised |-> "IsADirectoryError", kind |-> ""]
    ELSE IF ~f[p].readable THEN [raised |-> "PermissionError", kind |-> ""]
    ELSE [raised |-> "", kind |-> KindOfPrefix(ReadPrefix(f[p].data, PrefixLen))]

WriteNode(f, p, node) == [q \in (DOMAIN f) \cup {p} |-> IF q = p THEN node ELSE f[q]]

\* TemporaryDirectory.cleanup: rmtree of the directory and all below it
RemoveTree(f, dir) ==
    [q \in {r \in DOMAIN f : r # dir /\ ~IsUnder(r, dir)} |-> f[q]]

\* ------------------------------------------------------------------ result.py
RunResult(argv, cwd, exit_code, stdout, stderr, env) ==
    [argv |-> argv, cwd |-> cwd, exit_code |-> exit_code,
     stdout |-> stdout, stderr |-> stderr, env |-> env]

CompileResult(run, output_path, platform) ==
    [run |-> run, output_path |-> output_path, platform |-> platform]

\* ------------------------------------------------------------------ assertions/core.py
\* What evaluating a.check(res) does: return silently, raise AssertError(msg),
\* or raise another exception (msg is then the exception's class).
\* classified records whether detect_artifact_kind was called on the way.
Passed(c) == [r |-> "pass", msg |-> "", classified |-> c]
Failed(msg, c) == [r |-> "fail", msg |-> msg, classified |-> c]
Crashed(e) == [r |-> "raise", msg |-> e, classified |-> TRUE]

\* An Assertion: its name, and its check as the factory's kind and parameters.
Assertion(kind, name) ==
    [kind |-> kind, name |-> name, expected |-> 0, subseq |-> <<>>,
     expected_name |-> "", akind |-> "", path |-> P(FALSE, <<>>), text |-> <<>>]

\* ------------------------------------------------------------------ assertions/compiler.py
NoOutputPath == "no output_path provided to test"
NoPlatform == "platform info missing in CompileResult"
NotExist(p) == "output does not exist: " \o Str(p)
KindMsg(expected, got, p) ==
    "output kind expected " \o expected \o ", got " \o got \o " (" \o Str(p) \o ")"
NativeKindMsg(expected, os, got, p) ==
    "native output kind expected " \o expected \o " on " \o os \o ", got " \o got
    \o " (" \o Str(p) \o ")"

assert_exit_code(expected) ==
    [Assertion("exit_code", "exit_code_is_" \o ToString(expected)) EXCEPT !.expected = expected]
assert_argv_contains(subseq) ==
    [Assertion("argv_contains", "argv_contains") EXCEPT !.subseq = subseq]
assert_output_name(expected_name) ==
    [Assertion("output_name", "output_name") EXCEPT !.expected_name = expected_name]
assert_output_exists == Assertion("output_exists", "output_exists")
assert_output_kind(expected) ==
    [Assertion("output_kind", "output_kind_" \o expected) EXCEPT !.akind = expected]
assert_output_exists_at(path) ==
    [Assertion("output_exists_at", "output_exists_at_" \o PathName(path)) EXCEPT !.path = path]
assert_output_kind_at(path, expected) ==
    [Assertion("output_kind_at", "output_kind_at_" \o expected)
        EXCEPT !.path = path, !.akind = expected]
assert_output_nonempty_at(path) ==
    [Assertion("output_nonempty_at", "output_nonempty_at_" \o PathName(path))
        EXCEPT !.path = path]
assert_stdout_contains(text) ==
    [Assertion("stdout_contains", "stdout_contains_" \o JoinStr(text, "")) EXCEPT !.text = text]
assert_native_binary_kind == Assertion("native_binary_kind", "native_binary_kind")
assert_native_binary_kind_at(path) ==
    [Assertion("native_binary_kind_at", "native_binary_kind_at") EXCEPT !.path = path]

\* A variant of ScanFrom that looks for every needle from the start of argv
\* (a fresh iterator per needle): containment without order.
RECURSIVE ScanRestart(_, _, _, _)
ScanRestart(argv, pos, ssub, k) ==
    IF k > Len(ssub) THEN TRUE
    ELSE IF \E j \in 1..Len(argv) : argv[j] = ssub[k]
         THEN ScanRestart(argv, pos, ssub, k + 1)
         ELSE FALSE

\* The forward scan of assert_argv_contains: `it` is one iterator over argv,
\* shared by all needles; pos is the index of its next item.
RECURSIVE ScanFrom(_, _, _, _)
ScanFrom(argv, pos, ssub, k) ==
    IF k > Len(ssub) THEN TRUE
    ELSE LET hits == {j \in pos..Len(argv) : argv[j] = ssub[k]}
         IN IF hits = {} THEN FALSE
            ELSE LET j == CHOOSE h \in hits : \A g \in hits : h <= g
                 IN ScanFrom(argv, j + 1, ssub, k + 1)

ArgvContains(argv, ssub) == ScanFrom(argv, 1, ssub, 1)

check_exit_code(a, r) ==
    IF r.run.exit_code = a.expected THEN Passed(FALSE)
    ELSE Failed("exit_code expected " \o ToString(a.expected) \o ", got "
                \o ToString(r.run.exit_code) \o "\nstderr:\n" \o r.run.stderr, FALSE)

check_argv_contains(a, r) ==
    IF ArgvContains(r.run.argv, a.subseq) THEN Passed(FALSE)
    ELSE Failed("argv does not contain subsequence " \o ReprList(a.subseq)
                \o "\nargv=" \o ReprList(r.run.argv), FALSE)

check_output_name(a, r) ==
    IF IsNone(r.output_path) THEN Failed(NoOutputPath, FALSE)
    ELSE IF PathName(Get(r.output_path)) = a.expected_name THEN Passed(FALSE)
    ELSE Failed("output name expected '" \o a.expected_name \o "', got '"
                \o PathName(Get(r.output_path)) \o "'", FALSE)

check_output_exists(a, r, f) ==
    IF IsNone(r.output_path) THEN Failed(NoOutputPath, FALSE)
    ELSE IF Exists(f, Get(r.output_path)) THEN Passed(FALSE)
    ELSE Failed(NotExist(Get(r.output_path)), FALSE)

\* A variant of check_output_kind without the existence requirement: the
\* classifier opens the path whether it exists or not.
check_output_kind_unguarded(a, r, f) ==
    IF IsNone(r.output_path) THEN Failed(NoOutputPath, FALSE)
    ELSE IF ~Exists(f, Get(r.output_path)) THEN Crashed("FileNotFoundError")
    ELSE LET info == detect_artifact_kind(f, Get(r.output_path))
         IN IF info.raised # "" THEN Crashed(info.raised)
            ELSE IF info.kind = a.akind THEN Passed(TRUE)
            ELSE Failed(KindMsg(a.akind, info.kind, Get(r.output_path)), TRUE)

check_output_kind(a, r, f) ==
    IF IsNone(r.output_path) THEN Failed(NoOutputPath, FALSE)
    ELSE IF ~Exists(f, Get(r.output_path)) THEN Failed(NotExist(Get(r.output_path)), FALSE)
    ELSE LET info == detect_artifact_kind(f, Get(r.output_path))
         IN IF info.raised # "" THEN Crashed(info.raised)
            ELSE IF info.kind = a.akind THEN Passed(TRUE)
            ELSE Failed(KindMsg(a.akind, info.kind, Get(r.output_path)), TRUE)

_resolve_output_path(r, path) == IF ~path.abs THEN PathJoin(r.run.cwd, path) ELSE path

check_output_exists_at(a, r, f) ==
    LET p == _resolve_output_path(r, a.path)
    IN IF Exists(f, p) THEN Passed(FALSE) ELSE Failed(NotExist(p), FALSE)

check_output_kind_at(a, r, f) ==
    LET p == _resolve_output_path(r, a.path)
    IN IF ~Exists(f, p) THEN Failed(NotExist(p), FALSE)
       ELSE LET info == detect_artifact_kind(f, p)
            IN IF info.raised # "" THEN Crashed(info.raised)
               ELSE IF info.kind = a.akind THEN Passed(TRUE)
               ELSE Failed(KindMsg(a.akind, info.kind, p), TRUE)

check_output_nonempty_at(a, r, f) ==
    LET p == _resolve_output_path(r, a.path)
    IN IF ~Exists(f, p) THEN Failed(NotExist(p), FALSE)
       ELSE IF StatSize(f, p) > 0 THEN Passed(FALSE)
       ELSE Failed("output is empty: " \o Str(p), FALSE)

check_stdout_contains(a, r) ==
    IF Contains(r.run.stdout, a.text) THEN Passed(FALSE)
    ELSE Failed("stdout does not contain '" \o JoinStr(a.text, "") \o "'\nstdout:\n"
                \o JoinStr(r.run.stdout, "") \o "\nstderr:\n" \o r.run.stderr, FALSE)

NativeKind(platform) == IF platform.os = "MACOS" THEN "MACHO" ELSE "ELF"

check_native_binary_kind(a, r, f) ==
    IF IsNone(r.output_path) THEN Failed(NoOutputPath, FALSE)
    ELSE IF IsNone(r.platform) THEN Failed(NoPlatform, FALSE)
    ELSE IF ~Exists(f, Get(r.output_path)) THEN Failed(NotExist(Get(r.output_path)), FALSE)
    ELSE LET expected == NativeKind(Get(r.platform))
             info == detect_artifact_kind(f, Get(r.output_path))
         IN IF info.raised # "" THEN Crashed(info.raised)
            ELSE IF info.kind = expected THEN Passed(TRUE)
            ELSE Failed(NativeKindMsg(expected, Get(r.platform).os, info.kind,
                                      Get(r.output_path)), TRUE)

check_native_binary_kind_at(a, r, f) ==
    IF IsNone(r.platform) THEN Failed(NoPlatform, FALSE)
    ELSE LET p == _resolve_output_path(r, a.path)
         IN IF ~Exists(f, p) THEN Failed(NotExist(p), FALSE)
            ELSE LET expected == NativeKind(Get(r.platform))
                     info == detect_artifact_kind(f, p)
                 IN IF info.raised # "" THEN Crashed(info.raised)
                    ELSE IF info.kind = expected THEN Passed(TRUE)
                    ELSE Failed(NativeKindMsg(expected, Get(r.platform).os, info.kind, p),
                                TRUE)

\* a.check(res), on the filesystem f
Check(a, r, f) ==
    CASE a.kind = "exit_code" -> check_exit_code(a, r)
      [] a.kind = "argv_contains" -> check_argv_contains(a, r)
      [] a.kind = "output_name" -> check_output_name(a, r)
      [] a.kind = "output_exists" -> check_output_exists(a, r, f)
      [] a.kind = "output_kind" -> check_output_kind(a, r, f)
      [] a.kind = "output_exists_at" -> check_output_exists_at(a, r, f)
      [] a.kind = "output_kind_at" -> check_output_kind_at(a, r, f)
      [] a.kind = "output_nonempty_at" -> check_output_nonempty_at(a, r, f)
      [] a.kind = "stdout_contains" -> check_stdout_contains(a, r)
      [] a.kind = "native_binary_kind" -> check_native_binary_kind(a, r, f)
      [] a.kind = "native_binary_kind_at" -> check_native_binary_kind_at(a, r, f)

\* ------------------------------------------------------------------ runner.py (execution)
RunnerConfig(executable, dflt_timeout, default_env) ==
    [executable |-> executable, default_timeout_s |-> dflt_timeout,
     default_env |-> default_env]

\* What the executable under test does when launched (the environment's choice):
\* whether it can be launched at all, how long it runs, its exit code and
\* streams, and what it leaves at its output location.
Behaviour(launch, duration, exit_code, stdout, stderr, writes, data) ==
    [launch |-> launch, duration |-> duration, exit_code |-> exit_code,
     stdout |-> stdout, stderr |-> stderr, writes |-> writes, data |-> data]

\* subprocess.run: the exception it raises, "" when the child completed.
SubprocessRaises(b, timeout) ==
    IF ~b.launch THEN "FileNotFoundError"
    ELSE IF b.duration > timeout THEN "TimeoutExpired"
    ELSE ""

\* CompilerRunner.run, for a child that completed with behaviour b
RunnerRun(cfg, args, cwd, env, b) ==
    RunResult(RunnerArgv(cfg.executable, args), cwd, b.exit_code, b.stdout, b.stderr,
              ChildEnv(cfg.default_env, env))

\* CompilerRunner.compile, likewise
RunnerCompile(cfg, args, cwd, output_path, env, b, platform) ==
    CompileResult(RunnerRun(cfg, args, cwd, env, b), output_path, Some(platform))

\* ------------------------------------------------------------------ framework/testcase.py
TestCase(name, plan, assertions) ==
    [name |-> name, plan |-> plan, assertions |-> assertions]

TestReport(name, ok, errs, result) ==
    [name |-> name, ok |-> ok, errors |-> errs, result |-> result]

\* testcase.py:19
CaseOutPath(plan, workspace) ==
    IF ~IsNone(plan.out) THEN Some(PathJoin(workspace, Get(plan.out))) ELSE <<>>

\* A variant of CaseArgv that passes the plan's output path as written.
CaseArgvRawOut(plan, workspace) ==
    IF ~IsNone(plan.out)
    THEN [i \in 1..Len(plan.sources) |->
            IF ~StartsWithSlash(plan.sources[i])
            THEN Str(PathJoin(workspace, plan.sources[i]))
            ELSE Str(plan.sources[i])]
         \o <<"-o", Str(Get(plan.out))>>
         \o plan.extra_args
    ELSE PlanArgv(plan)

\* testcase.py:20-28: the argv handed to runner.compile
CaseArgv(plan, workspace) ==
    IF ~IsNone(plan.out)
    THEN [i \in 1..Len(plan.sources) |->
            IF ~StartsWithSlash(plan.sources[i])
            THEN Str(PathJoin(workspace, plan.sources[i]))
            ELSE Str(plan.sources[i])]
         \o <<"-o", Str(Get(CaseOutPath(plan, workspace)))>>
         \o plan.extra_args
    ELSE PlanArgv(plan)

\* testcase.py:37
ErrorLine(a, msg) == "[" \o a.name \o "] " \o msg

\* ------------------------------------------------------------------ framework/suite.py
RootWorkspace == P(TRUE, <<"root">>)
\* The root_workspace of a second TestSuite.run, and the one of the run in
\* progress.
SecondRoot == P(TRUE, <<"root2">>)
RootNow == IF op = "second" THEN SecondRoot ELSE RootWorkspace
Cfg == RunnerConfig(P(TRUE, <<"bin", "cc">>), default_timeout_s, <<>>)

\* tempfile.TemporaryDirectory(prefix=f"{tc.name}_", dir=str(root_workspace)):
\* the random part of the name is any the directory does not hold yet.
Suffixes == {"k3x", "q7m"}

\* A variant of TempDirs without the dir argument: the directory is made in
\* one fixed place, whatever root the suite was given.
TempDirsFixedPlace(f, root, name) ==
    {d \in {PathJoin(RootWorkspace, P(FALSE, <<name \o "_" \o x>>)) : x \in Suffixes} :
        ~Exists(f, d)}

\* A variant of TempDirs without the prefix argument: the directory is named
\* by tempfile's default prefix.
TempDirsDefaultPrefix(f, root, name) ==
    {d \in {PathJoin(root, P(FALSE, <<"tmp" \o x>>)) : x \in Suffixes} : ~Exists(f, d)}

TempDirs(f, root, name) ==
    {d \in {PathJoin(root, P(FALSE, <<name \o "_" \o x>>)) : x \in Suffixes} : ~Exists(f, d)}

\* SuiteReport.ok
SuiteOk(reps) == \A i \in 1..Len(reps) : reps[i].ok

\* ------------------------------------------------------------------ framework/reporter.py
\* the loop of render: failed after the first n reports
RECURSIVE FailedAfter(_, _)
FailedAfter(reps, n) ==
    IF n = 0 THEN 0
    ELSE FailedAfter(reps, n - 1) + (IF ~reps[n].ok THEN 1 ELSE 0)

\* A variant of Render whose exit status looks at passed instead of failed.
RenderByPassed(reps) ==
    LET total == Len(reps)
        failed == FailedAfter(reps, total)
        passed == total - failed
    IN [passed |-> passed, total |-> total, failed |-> failed,
        status |-> IF passed = total /\ total > 0 THEN 0 ELSE 1]

Render(reps) ==
    LET total == Len(reps)
        failed == FailedAfter(reps, total)
        passed == total - failed
    IN [passed |-> passed, total |-> total, failed |-> failed,
        status |-> IF failed = 0 THEN 0 ELSE 1]

\* ------------------------------------------------------------------ the suite's inputs
SrcMain == P(FALSE, <<"main.c">>)
OutRel == P(FALSE, <<"a.out">>)

ElfBytes == ElfMagic \o <<2, 1>>
TextBytes == <<104, 105>>

\* The cases a suite is drawn from.
CaseTemplates ==
    { TestCase("build", CompilePlan("build", <<SrcMain>>, Some(OutRel), <<>>),
               <<assert_exit_code(0), assert_output_kind("ELF")>>),
      TestCase("check", CompilePlan("check", <<SrcMain>>, <<>>, <<"-fsyntax-only">>),
               <<assert_output_exists, assert_exit_code(0)>>) }

\* What the executable under test may do on one launch.
Behaviours ==
    { Behaviour(TRUE, 1, 0, <<>>, "", "file", ElfBytes),
      Behaviour(TRUE, 1, 1, <<>>, "error", "none", <<>>),
      Behaviour(TRUE, 1, 0, <<>>, "", "dir", <<>>),
      Behaviour(TRUE, 30, 0, <<>>, "", "none", <<>>),
      Behaviour(FALSE, 0, 0, <<>>, "", "none", <<>>) }

Hosts == { [system |-> "linux", machine |-> "x86_64"] }

\* What the launch of case i may do: anything, unless the executable under
\* test is a deterministic one, which does what arg.exe says for the case.
Launches(i) == IF op = "" THEN Behaviours ELSE {arg.exe[i]}

\* What a completed child left on disk: at the output path when the plan has
\* one, else at a.out in its working directory.
ApplyWrites(f, b, cwd, output_path) ==
    LET target == IF IsNone(output_path) THEN PathJoin(cwd, OutRel) ELSE Get(output_path)
    IN CASE b.writes = "none" -> f
         [] b.writes = "file" -> WriteNode(f, target, File(b.data))
         [] b.writes = "unreadable" -> WriteNode(f, target, Unreadable(b.data))
         [] b.writes = "dir" -> WriteNode(f, target, Dir)

Ev(e, c, a) == [e |-> e, c |-> c, a |-> a]

NoFiles == [q \in {} |-> Dir]

\* ------------------------------------------------------------------ Init
CallIdle == op = "" /\ arg = <<>> /\ out = <<>>

Init ==
    /\ cases \in SeqsUpTo(CaseTemplates, MaxCases)
    /\ host \in Hosts
    /\ pc = "start"
    /\ idx = 0
    /\ fs = NoFiles
    /\ ws = <<>>
    /\ res = <<>>
    /\ ai = 0
    /\ errors = <<>>
    /\ reports = <<>>
    /\ exc = ""
    /\ status = <<>>
    /\ summary = <<>>
    /\ log = <<>>
    /\ CallIdle

\* ------------------------------------------------------------------ TestSuite.run
\* suite.py:21-22
SuiteStart ==
    /\ pc = "start"
    /\ fs' = IF Exists(fs, RootNow) THEN fs ELSE WriteNode(fs, RootNow, Dir)
    /\ reports' = <<>>
    /\ idx' = 1
    /\ pc' = "loop"
    /\ UNCHANGED <<cases, host, ws, res, ai, errors, exc, status, summary, log>>
    /\ UNCHANGED callVars

\* suite.py:23-28: the next case's TemporaryDirectory is created
EnterCase ==
    /\ pc = "loop"
    /\ idx <= Len(cases)
    /\ \E d \in TempDirs(fs, RootNow, cases[idx].name) :
          /\ ws' = Some(d)
          /\ fs' = WriteNode(fs, d, Dir)
          /\ log' = Append(log, Ev("enter", idx, 0))
    /\ pc' = "case"
    /\ UNCHANGED <<cases, host, idx, res, ai, errors, reports, exc, status, summary>>
    /\ UNCHANGED callVars

\* testcase.py:19-32: the argv is built and runner.compile is called; the
\* child fails to launch, exceeds the timeout, or completes.
RunCompile ==
    /\ pc = "case"
    /\ \E b \in Launches(idx) :
          LET tc == cases[idx]
              w == Get(ws)
              out_path == CaseOutPath(tc.plan, w)
              argv == CaseArgv(tc.plan, w)
              raises == SubprocessRaises(b, AppliedTimeout(<<>>, Cfg.default_timeout_s))
          IN IF raises # ""
             THEN /\ exc' = raises
                  /\ pc' = "unwind"
                  /\ log' = Append(log, Ev("run", idx, 0))
                  /\ UNCHANGED <<fs, res, ai, errors>>
             ELSE /\ res' = Some(RunnerCompile(Cfg, argv, w, out_path, <<>>, b,
                                               detect_platform(host.system, host.machine)))
                  /\ fs' = ApplyWrites(fs, b, w, out_path)
                  /\ errors' = <<>>
                  /\ ai' = 1
                  /\ pc' = "assert"
                  /\ log' = Append(log, Ev("run", idx, 0))
                  /\ exc' = exc
    /\ UNCHANGED <<cases, host, idx, ws, reports, status, summary>>
    /\ UNCHANGED callVars

\* A variant of AfterCheck without the try/except: an AssertError leaves the loop.
AfterCheckUncaught(a, o, errs) ==
    CASE o.r = "pass" -> [errors |-> errs, next |-> "continue", exc |-> ""]
      [] OTHER -> [errors |-> errs, next |-> "raise", exc |-> "AssertError"]

\* What one iteration of the loop at testcase.py:33-37 does with the outcome
\* o of a.check(res): the errors list, and whether the loop goes on.
AfterCheck(a, o, errs) ==
    CASE o.r = "pass" -> [errors |-> errs, next |-> "continue", exc |-> ""]
      [] o.r = "fail" -> [errors |-> Append(errs, ErrorLine(a, o.msg)),
                          next |-> "continue", exc |-> ""]
      [] o.r = "raise" -> [errors |-> errs, next |-> "raise", exc |-> o.msg]

\* testcase.py:33-37: one assertion is evaluated
CheckAssertion ==
    /\ pc = "assert"
    /\ ai <= Len(cases[idx].assertions)
    /\ LET a == cases[idx].assertions[ai]
           step == AfterCheck(a, Check(a, Get(res), fs), errors)
       IN /\ errors' = step.errors
          /\ log' = Append(log, Ev("check", idx, ai))
          /\ IF step.next = "continue"
             THEN /\ ai' = ai + 1
                  /\ UNCHANGED <<pc, exc>>
             ELSE /\ exc' = step.exc
                  /\ pc' = "unwind"
                  /\ ai' = ai
    /\ UNCHANGED <<cases, host, idx, fs, ws, res, reports, status, summary>>
    /\ UNCHANGED callVars

\* A variant of AppendReport that inserts the report at the front of the list.
AppendReportFront ==
    /\ pc = "assert"
    /\ ai > Len(cases[idx].assertions)
    /\ reports' = <<TestReport(cases[idx].name, Len(errors) = 0, errors, Get(res))>>
                  \o reports
    /\ log' = Append(log, Ev("append", idx, 0))
    /\ pc' = "exit"
    /\ UNCHANGED <<cases, host, idx, fs, ws, res, ai, errors, exc, status, summary>>
    /\ UNCHANGED callVars

\* testcase.py:39-44 and suite.py:30: the report is built and appended
AppendReport ==
    /\ pc = "assert"
    /\ ai > Len(cases[idx].assertions)
    /\ reports' = Append(reports,
                         TestReport(cases[idx].name, Len(errors) = 0, errors, Get(res)))
    /\ log' = Append(log, Ev("append", idx, 0))
    /\ pc' = "exit"
    /\ UNCHANGED <<cases, host, idx, fs, ws, res, ai, errors, exc, status, summary>>
    /\ UNCHANGED callVars

\* suite.py:24-30: the with-block is left normally; the directory is removed
ExitCase ==
    /\ pc = "exit"
    /\ fs' = RemoveTree(fs, Get(ws))
    /\ ws' = <<>>
    /\ res' = <<>>
    /\ errors' = <<>>
    /\ ai' = 0
    /\ idx' = idx + 1
    /\ log' = Append(log, Ev("dispose", idx, 0))
    /\ pc' = "loop"
    /\ UNCHANGED <<cases, host, reports, exc, status, summary>>
    /\ UNCHANGED callVars

\* A variant of UnwindCase that forgets the directory when an exception leaves
\* the block (the bug of a mkdtemp without try/finally).
UnwindCaseLeak ==
    /\ pc = "unwind"
    /\ ws' = <<>>
    /\ log' = Append(log, Ev("dispose", idx, 0))
    /\ pc' = "raised"
    /\ UNCHANGED <<cases, host, idx, fs, res, ai, errors, reports, exc, status, summary>>
    /\ UNCHANGED callVars

\* suite.py:24-30: the with-block is left by an exception; the directory is
\* removed and the exception leaves TestSuite.run
UnwindCase ==
    /\ pc = "unwind"
    /\ fs' = RemoveTree(fs, Get(ws))
    /\ ws' = <<>>
    /\ log' = Append(log, Ev("dispose", idx, 0))
    /\ pc' = "raised"
    /\ UNCHANGED <<cases, host, idx, res, ai, errors, reports, exc, status, summary>>
    /\ UNCHANGED callVars

\* suite.py:31
SuiteReturn ==
    /\ pc = "loop"
    /\ idx > Len(cases)
    /\ pc' = "returned"
    /\ UNCHANGED <<cases, host, idx, fs, ws, res, ai, errors, reports, exc, status,
                   summary, log>>
    /\ UNCHANGED callVars

\* reporter.py:8-21
ReporterRender ==
    /\ pc = "returned"
    /\ LET r == Render(reports)
       IN /\ status' = Some(r.status)
          /\ summary' = Some([passed |-> r.passed, total |-> r.total])
    /\ pc' = "rendered"
    /\ UNCHANGED <<cases, host, idx, fs, ws, res, ai, errors, reports, exc, log>>
    /\ UNCHANGED callVars

Next ==
    \/ SuiteStart
    \/ EnterCase
    \/ RunCompile
    \/ CheckAssertion
    \/ AppendReport
    \/ ExitCase
    \/ UnwindCase
    \/ SuiteReturn
    \/ ReporterRender

Spec == Init /\ [][Next]_vars

\* ------------------------------------------------------------------ two runs
\* The same suite is run twice, the second time on another, fresh root, with
\* an executable under test that does the same for a case each time; out
\* keeps the reports of the first run.
InitTwice ==
    /\ cases \in SeqsUpTo(CaseTemplates, MaxRerunCases)
    /\ host \in Hosts
    /\ pc = "start"
    /\ idx = 0
    /\ fs = NoFiles
    /\ ws = <<>>
    /\ res = <<>>
    /\ ai = 0
    /\ errors = <<>>
    /\ reports = <<>>
    /\ exc = ""
    /\ status = <<>>
    /\ summary = <<>>
    /\ log = <<>>
    /\ op = "first"
    /\ arg \in {[exe |-> e] : e \in [1..Len(cases) -> Behaviours]}
    /\ out = <<>>

\* The first run has returned its SuiteReport; suite.run is called again.
RunAgain ==
    /\ op = "first"
    /\ pc = "returned"
    /\ out' = reports
    /\ op' = "second"
    /\ pc' = "start"
    /\ idx' = 0
    /\ fs' = NoFiles
    /\ reports' = <<>>
    /\ log' = <<>>
    /\ UNCHANGED <<cases, host, ws, res, ai, errors, exc, status, summary, arg>>

NextTwice ==
    \/ SuiteStart
    \/ EnterCase
    \/ RunCompile
    \/ CheckAssertion
    \/ AppendReport
    \/ ExitCase
    \/ UnwindCase
    \/ SuiteReturn
    \/ RunAgain

SpecTwice == InitTwice /\ [][NextTwice]_vars

\* ------------------------------------------------------------------ single calls
\* The specifications below apply one operation to inputs drawn from bounded
\* sets; the suite driver stays off.
SuiteOff ==
    /\ cases = <<>>
    /\ host = [system |-> "linux", machine |-> "x86_64"]
    /\ pc = "off"
    /\ idx = 0
    /\ fs = NoFiles
    /\ ws = <<>>
    /\ res = <<>>
    /\ ai = 0
    /\ errors = <<>>
    /\ reports = <<>>
    /\ exc = ""
    /\ status = <<>>
    /\ summary = <<>>
    /\ log = <<>>

Workspace == PathJoin(RootWorkspace, P(FALSE, <<"build_k3x">>))
Completed == Behaviour(TRUE, 1, 0, <<>>, "", "file", ElfBytes)

\* ---- CompilePlan.argv and TestCase.run's argv (plan.py, testcase.py)
SrcAbs == P(TRUE, <<"src", "lib.c">>)
OutAbs == P(TRUE, <<"tmp", "x.o">>)

PlanInputs ==
    { [plan |-> CompilePlan("p", srcs, o, extra), workspace |-> w] :
        srcs \in SeqsUpTo({SrcMain, SrcAbs}, MaxArgs),
        o \in {<<>>, Some(OutRel), Some(OutAbs)},
        extra \in SeqsUpTo({"-c", "-o"}, MaxArgs),
        w \in {Workspace, P(FALSE, <<"ws">>)} }

InitPlan ==
    /\ SuiteOff
    /\ op = ""
    /\ arg \in PlanInputs
    /\ out = <<>>

\* plan.argv() is called (again)
CallArgv ==
    /\ op \in {"", "argv"}
    /\ op' = "argv"
    /\ out' = PlanArgv(arg.plan)
    /\ UNCHANGED arg
    /\ UNCHANGED suiteVars

\* TestCase.run up to testcase.py:30, with a child that completes
CallCaseCompile ==
    /\ op = ""
    /\ op' = "compile"
    /\ LET args == CaseArgv(arg.plan, arg.workspace)
       IN out' = [args |-> args,
                  result |-> RunnerCompile(Cfg, args, arg.workspace,
                                           CaseOutPath(arg.plan, arg.workspace), <<>>,
                                           Completed,
                                           detect_platform(host.system, host.machine))]
    /\ UNCHANGED arg
    /\ UNCHANGED suiteVars

NextPlan ==
    \/ CallArgv
    \/ CallCaseCompile

SpecPlan == InitPlan /\ [][NextPlan]_vars

\* ---- CompilerRunner.run (runner.py)
EnvKeys == {"CC", "LANG"}
EnvValues == {"x", "y"}
Dicts == UNION {[ks -> EnvValues] : ks \in SUBSET EnvKeys}
OptDicts == {<<>>} \cup {Some(d) : d \in Dicts}

RunInputs ==
    { [default_env |-> de, env |-> e, timeout_s |-> t, b |-> b] :
        de \in OptDicts, e \in OptDicts,
        t \in {<<>>, <<0>>, <<5>>, <<30>>},
        b \in { Behaviour(TRUE, 1, 0, <<>>, "", "none", <<>>),
                Behaviour(TRUE, 1, 3, <<"o">>, "bad", "none", <<>>),
                Behaviour(TRUE, 10, 0, <<>>, "", "none", <<>>),
                Behaviour(TRUE, 25, 1, <<>>, "", "none", <<>>) } }

InitRun ==
    /\ SuiteOff
    /\ op = ""
    /\ arg \in RunInputs
    /\ out = <<>>

\* runner.run(args, cwd, env, timeout_s) on a runner configured with default_env
CallRun ==
    /\ op = ""
    /\ op' = "run"
    /\ LET cfg == RunnerConfig(Cfg.executable, default_timeout_s, arg.default_env)
           timeout == AppliedTimeout(arg.timeout_s, cfg.default_timeout_s)
           raises == SubprocessRaises(arg.b, timeout)
       IN out' = [timeout |-> timeout,
                  child_env |-> ChildEnv(cfg.default_env, arg.env),
                  raised |-> raises,
                  result |-> IF raises = ""
                             THEN Some(RunnerRun(cfg, <<"-c">>, Workspace, arg.env, arg.b))
                             ELSE <<>>]
    /\ UNCHANGED arg
    /\ UNCHANGED suiteVars

NextRun == CallRun

SpecRun == InitRun /\ [][NextRun]_vars

\* ---- the built-in assertions (assertions/compiler.py)
OutInWs == PathJoin(Workspace, OutRel)
MachoBytes == <<207, 250, 237, 254, 7>>

BuiltIns ==
    { assert_exit_code(0), assert_argv_contains(<<"-c">>), assert_output_name("a.out"),
      assert_output_exists, assert_output_kind("ELF"),
      assert_output_exists_at(OutRel), assert_output_kind_at(OutRel, "ELF"),
      assert_output_kind_at(OutInWs, "LLVM_IR_TEXT"),
      assert_output_nonempty_at(OutRel), assert_stdout_contains(<<"o">>),
      assert_native_binary_kind, assert_native_binary_kind_at(OutRel) }

\* What may be at the output location when an assertion looks.
Nodes == { <<>>, Some(Dir), Some(Unreadable(ElfBytes)), Some(File(ElfBytes)),
           Some(File(MachoBytes)), Some(File(TextBytes)), Some(File(<<>>)) }

FsWith(node) ==
    LET base == WriteNode(WriteNode(NoFiles, RootWorkspace, Dir), Workspace, Dir)
    IN IF IsNone(node) THEN base ELSE WriteNode(base, OutInWs, Get(node))

CheckInputs ==
    { [a |-> a,
       res |-> CompileResult(
                  RunResult(<<"/bin/cc", "main.c">>, Workspace, code, <<"o", "k">>, "",
                            <<>>),
                  o, pf),
       fs |-> FsWith(node)] :
        a \in BuiltIns,
        code \in {0, 1},
        o \in {<<>>, Some(OutInWs)},
        pf \in {<<>>, Some(detect_platform("linux", "x86_64")),
                Some(detect_platform("darwin", "arm64"))},
        node \in Nodes }

InitCheck ==
    /\ SuiteOff
    /\ op = ""
    /\ arg \in CheckInputs
    /\ out = <<>>

\* a.check(res) is called
CallCheck ==
    /\ op = ""
    /\ op' = "check"
    /\ out' = Check(arg.a, arg.res, arg.fs)
    /\ UNCHANGED arg
    /\ UNCHANGED suiteVars

NextCheck == CallCheck

SpecCheck == InitCheck /\ [][NextCheck]_vars

\* ---- assert_argv_contains on drawn vectors
Tokens == {"a", "b", "-o", "out"}

ArgvInputs ==
    { [actual |-> A, expected |-> E] :
        A \in SeqsUpTo(Tokens, MaxArgv), E \in SeqsUpTo(Tokens, MaxNeedles) }

InitArgv ==
    /\ SuiteOff
    /\ op = ""
    /\ arg \in ArgvInputs
    /\ out = <<>>

\* assert_argv_contains(expected).check(res), res.run.argv being actual
CallArgvContains ==
    /\ op = ""
    /\ op' = "argv_contains"
    /\ out' = Check(assert_argv_contains(arg.expected),
                    CompileResult(RunResult(arg.actual, Workspace, 0, <<>>, "", <<>>),
                                  <<>>, <<>>),
                    NoFiles)
    /\ UNCHANGED arg
    /\ UNCHANGED suiteVars

NextArgv == CallArgvContains

SpecArgv == InitArgv /\ [][NextArgv]_vars

\* ---- detect_artifact_kind on drawn file contents (inspect/filetype.py)
Spaces(n) == [i \in 1..n |-> 32]

\* Leading bytes: none, white space, and white space that fills the prefix up
\* to the 64-byte cut or just past it.
Pads == { <<>>, <<10, 9>>, Spaces(52), Spaces(53) }

\* Magic numbers, whole and cut short, the IR-text markers, other text, bytes
\* that are no UTF-8, and U+2003 (white space of three bytes).
Heads ==
    { <<>>, <<127>>, <<127, 69, 76>>, ElfMagic, <<254, 237, 250>>, BitcodeMagic,
      <<66, 67, 192>>, <<66, 67>>, ModuleIdMarker, SourceFilenameMarker,
      TargetTripleMarker, TextBytes, <<255, 254>>, <<195, 169>>, <<226, 128, 131>> }
    \cup macho_magics

Tails == { <<>>, <<0>>, <<255>>, ModuleIdMarker, TargetTripleMarker }

Contents == { pad \o head \o tail : pad \in Pads, head \in Heads, tail \in Tails }

InitDetect ==
    /\ SuiteOff
    /\ op = ""
    /\ arg \in { [data |-> d, p |-> OutInWs, fs |-> FsWith(Some(File(d)))] : d \in Contents }
    /\ out = <<>>

\* detect_artifact_kind(p) is called on a readable regular file
CallDetect ==
    /\ op = ""
    /\ op' = "detect"
    /\ out' = detect_artifact_kind(arg.fs, arg.p)
    /\ UNCHANGED arg
    /\ UNCHANGED suiteVars

NextDetect == CallDetect

SpecDetect == InitDetect /\ [][NextDetect]_vars

\* ================================================================== properties
ExecFailures == {"TimeoutExpired", "FileNotFoundError"}

\* ------------------------------------------------------------------ C1
\* C1: in a suite of 3 cases whose case 2 fails to execute (its process exceeds
\* the timeout or cannot be launched), the run does not end with that failure
\* leaving TestSuite.run: once run and render are over there are 3 reports,
\* report 2 is not ok and carries the cause as its message, and the exit
\* status is 1.
CaseTwoExecFailed == Len(cases) = 3 /\ idx = 2 /\ exc \in ExecFailures

C1_ExecFailureIsolated ==
    CaseTwoExecFailed =>
        /\ pc # "raised"
        /\ pc = "rendered" =>
              /\ Len(reports) = 3
              /\ ~reports[2].ok
              /\ Len(reports[2].errors) = 1
              /\ status = Some(1)

\* ------------------------------------------------------------------ C2
\* C2: whenever no case is running (between two cases, and after TestSuite.run
\* has returned or has raised) nothing exists under the root workspace: every
\* case workspace created so far has been removed, on every exit path.
NoCaseRunning == pc \in {"loop", "returned", "rendered", "raised"}

C2_WorkspacesRemoved ==
    /\ NoCaseRunning => \A q \in DOMAIN fs : ~IsUnder(q, RootWorkspace)
    /\ ~NoCaseRunning /\ pc # "start" =>
          \A q \in DOMAIN fs : IsUnder(q, RootWorkspace) => (q = Get(ws) \/ IsUnder(q, Get(ws)))

\* the run has raised out of case 2 after case 1 was reported with failures
C2_Witness ==
    /\ pc = "raised"
    /\ idx = 2
    /\ Len(reports) = 1
    /\ ~reports[1].ok
    /\ \E k \in 1..Len(log) : log[k] = Ev("enter", 2, 0)

\* ------------------------------------------------------------------ C3
\* The messages the first n assertions of a list must have produced: one per
\* failing assertion, in list order, prefixed with the assertion's name.
RECURSIVE ExpectedErrors(_, _, _, _)
ExpectedErrors(as, r, f, n) ==
    IF n = 0 THEN <<>>
    ELSE LET o == Check(as[n], r, f)
         IN ExpectedErrors(as, r, f, n - 1)
            \o (IF o.r = "fail" THEN <<"[" \o as[n].name \o "] " \o o.msg>> ELSE <<>>)

\* the assertion indices evaluated so far for case c, in the order evaluated
RECURSIVE CheckedOf(_, _)
CheckedOf(l, c) ==
    IF Len(l) = 0 THEN <<>>
    ELSE LET last == l[Len(l)]
             before == CheckedOf(SubSeq(l, 1, Len(l) - 1), c)
         IN IF last.e = "check" /\ last.c = c THEN Append(before, last.a) ELSE before

\* C3: TestCase.run evaluates every assertion exactly once, in list order, and
\* a failing assertion never stops it: while and after the assertions are
\* evaluated the errors list holds exactly one message per failing assertion
\* evaluated so far, in order, each prefixed with the assertion's name; the
\* report carries that list once all assertions were evaluated; and the loop
\* is never left because an assertion failed.
C3_AllAssertionsEvaluated ==
    /\ pc \in {"assert", "exit"} =>
          LET as == cases[idx].assertions
              n == IF pc = "exit" THEN Len(as) ELSE ai - 1
          IN /\ CheckedOf(log, idx) = [k \in 1..n |-> k]
             /\ errors = ExpectedErrors(as, Get(res), fs, n)
             /\ pc = "exit" => reports[Len(reports)].errors = errors
    /\ (pc = "unwind" /\ Len(log) > 0 /\ log[Len(log)].e = "check") =>
          Check(cases[idx].assertions[log[Len(log)].a], Get(res), fs).r = "raise"

\* a case whose two assertions both failed has been reported
C3_Witness ==
    /\ pc = "exit"
    /\ Len(cases[idx].assertions) = 2
    /\ Len(reports[Len(reports)].errors) = 2

\* ------------------------------------------------------------------ C4
\* C4: a built-in assertion evaluated on any CompileResult and any filesystem
\* state returns silently or fails with AssertError carrying a message; it
\* never raises anything else.
C4_OnlyAssertError ==
    op = "check" =>
        /\ out.r \in {"pass", "fail"}
        /\ out.r = "fail" => out.msg # ""

\* ------------------------------------------------------------------ C5
\* C5: every report's ok flag is true iff its failure list is empty; once
\* rendered, the exit status is 0 iff every report is ok and 1 otherwise, and
\* the summary counts satisfy passed + failed = total = number of reports (an
\* empty suite renders 0/0 and returns 0).
C5_OkAndExitStatus ==
    /\ \A i \in 1..Len(reports) : reports[i].ok <=> (Len(reports[i].errors) = 0)
    /\ pc = "rendered" =>
          LET okSet == {i \in 1..Len(reports) : reports[i].ok}
              failSet == {i \in 1..Len(reports) : ~reports[i].ok}
          IN /\ Get(status) \in {0, 1}
             /\ Get(status) = 0 <=> SuiteOk(reports)
             /\ Get(summary).total = Len(reports)
             /\ Get(summary).passed = Cardinality(okSet)
             /\ Get(summary).passed + Cardinality(failSet) = Get(summary).total
             /\ Len(cases) = 0 => (Get(summary) = [passed |-> 0, total |-> 0]
                                   /\ Get(status) = 0)

\* a suite with a passing and a failing case has been rendered
C5_Witness ==
    /\ pc = "rendered"
    /\ status = Some(1)
    /\ Get(summary).passed >= 1
    /\ Get(summary).total > Get(summary).passed

\* ------------------------------------------------------------------ C6
CountEv(l, ev) == Cardinality({k \in 1..Len(l) : l[k] = ev})

\* C6: each case is entered and run at most once, and exactly once when
\* TestSuite.run returns; reports[i].name = cases[i].name for every report, one
\* report per case on return; and case i+1 is entered only after case i's
\* report was appended and then case i's workspace disposed.
C6_SequentialInOrder ==
    /\ Len(reports) <= Len(cases)
    /\ \A i \in 1..Len(reports) : reports[i].name = cases[i].name
    /\ \A i \in 1..Len(cases) :
          /\ CountEv(log, Ev("enter", i, 0)) <= 1
          /\ CountEv(log, Ev("run", i, 0)) <= 1
    /\ pc \in {"returned", "rendered"} =>
          /\ Len(reports) = Len(cases)
          /\ \A i \in 1..Len(cases) :
                /\ CountEv(log, Ev("enter", i, 0)) = 1
                /\ CountEv(log, Ev("run", i, 0)) = 1
    /\ \A k \in 1..Len(log) :
          (log[k].e = "enter" /\ log[k].c > 1) =>
              \E j1, j2 \in 1..k :
                  /\ j1 < j2
                  /\ j2 < k
                  /\ log[j1] = Ev("append", log[k].c - 1, 0)
                  /\ log[j2] = Ev("dispose", log[k].c - 1, 0)

\* a suite of three cases of different names has returned
C6_Witness ==
    /\ pc = "returned"
    /\ Len(cases) = 3
    /\ cases[1].name # cases[2].name

\* ------------------------------------------------------------------ C7
\* d if set, else the empty map
OrEmpty(od) == IF IsNone(od) THEN EmptyDict ELSE Get(od)

\* C7: the child environment is the default map overlaid with the overrides
\* (an override wins on a shared key); the child inherits the ambient
\* environment exactly when neither a default nor an override is set, and an
\* explicitly supplied empty map gives an empty environment, never inherit.
C7_EnvThreeWay ==
    op = "run" =>
        LET de == arg.default_env
            e == arg.env
            overlay == [k \in (DOMAIN OrEmpty(de)) \cup (DOMAIN OrEmpty(e)) |->
                          IF k \in DOMAIN OrEmpty(e) THEN OrEmpty(e)[k] ELSE OrEmpty(de)[k]]
        IN IF IsNone(de) /\ IsNone(e)
           THEN IsNone(out.child_env)
           ELSE out.child_env = Some(overlay)

\* ------------------------------------------------------------------ C8
\* the vector argv() must return for a plan, token by token
ArgvShape(v, plan) ==
    LET ns == Len(plan.sources)
        no == IF IsNone(plan.out) THEN 0 ELSE 2
        ne == Len(plan.extra_args)
    IN /\ Len(v) = ns + no + ne
       /\ \A i \in 1..ns : v[i] = Str(plan.sources[i])
       /\ ~IsNone(plan.out) => (v[ns + 1] = "-o" /\ v[ns + 2] = Str(Get(plan.out)))
       /\ \A j \in 1..ne : v[ns + no + j] = plan.extra_args[j]

\* C8: argv() returns the stringified sources in order, then "-o" and the
\* stringified output path iff an output is set, then the extra arguments in
\* order; a call leaves the plan as it was, and a second call on the same plan
\* returns the same vector.
C8_ArgvOrder ==
    /\ [](op = "argv" => ArgvShape(out, arg.plan))
    /\ [][op' = "argv" => (arg' = arg /\ (op = "argv" => out' = out))]_vars

\* argv() was called on a plan with two sources, an output and extra arguments
C8_Witness ==
    /\ op = "argv"
    /\ Len(arg.plan.sources) = 2
    /\ ~IsNone(arg.plan.out)
    /\ Len(arg.plan.extra_args) = 2
    /\ Len(out) = 6

\* ------------------------------------------------------------------ C9
Resolved(src, w) == IF src.abs THEN Str(src) ELSE Str(PathJoin(w, src))

\* C9 as claimed: for every plan, with or without an output path, the argv
\* TestCase.run hands over holds each source re-resolved against the workspace
\* when not absolute, then (output set) the output flag with a path inside the
\* workspace, then the extra arguments; output_path is the path after "-o".
C9_ArgvResolvedAlways ==
    op = "compile" =>
        LET plan == arg.plan
            w == arg.workspace
            v == out.args
            ns == Len(plan.sources)
            no == IF IsNone(plan.out) THEN 0 ELSE 2
            ne == Len(plan.extra_args)
        IN /\ Len(v) = ns + no + ne
           /\ \A i \in 1..ns : v[i] = Resolved(plan.sources[i], w)
           /\ ~IsNone(plan.out) =>
                 /\ v[ns + 1] = "-o"
                 /\ ~IsNone(out.result.output_path)
                 /\ IsUnder(Get(out.result.output_path), w)
                 /\ v[ns + 2] = Str(Get(out.result.output_path))
           /\ \A j \in 1..ne : v[ns + no + j] = plan.extra_args[j]

\* C9 as amended: when an output is set the argv holds each source re-resolved
\* against the workspace when not absolute, then "-o" and workspace / out
\* (inside the workspace when out is relative, out itself when out is
\* absolute), then the extra arguments, and output_path is the path after
\* "-o"; when no output is set the argv is plan.argv(), the sources as written,
\* and output_path is absent. The executed vector is the executable followed
\* by that argv.
C9_ArgvResolvedWhenOutput ==
    op = "compile" =>
        LET plan == arg.plan
            w == arg.workspace
            v == out.args
            ns == Len(plan.sources)
            ne == Len(plan.extra_args)
        IN /\ out.result.run.argv = <<Str(Cfg.executable)>> \o v
           /\ IF ~IsNone(plan.out)
              THEN /\ Len(v) = ns + 2 + ne
                   /\ \A i \in 1..ns : v[i] = Resolved(plan.sources[i], w)
                   /\ v[ns + 1] = "-o"
                   /\ ~IsNone(out.result.output_path)
                   /\ v[ns + 2] = Str(Get(out.result.output_path))
                   /\ IF Get(plan.out).abs
                      THEN Get(out.result.output_path) = Get(plan.out)
                      ELSE /\ IsUnder(Get(out.result.output_path), w)
                           /\ Get(out.result.output_path)
                                = P(w.abs, w.parts \o Get(plan.out).parts)
                   /\ \A j \in 1..ne : v[ns + 2 + j] = plan.extra_args[j]
              ELSE /\ ArgvShape(v, plan)
                   /\ IsNone(out.result.output_path)

\* TestCase.run has compiled a plan with a relative source and a relative
\* output in its workspace
C9_Witness ==
    /\ op = "compile"
    /\ Len(arg.plan.sources) >= 1
    /\ ~arg.plan.sources[1].abs
    /\ ~IsNone(arg.plan.out)
    /\ ~Get(arg.plan.out).abs
    /\ out.args[Len(arg.plan.sources) + 2] = Str(PathJoin(arg.workspace, OutRel))

\* ------------------------------------------------------------------ C10
\* E is a subsequence of A: its tokens sit at strictly increasing positions of A
IsSubsequence(E, A) ==
    \E f \in [1..Len(E) -> 1..Len(A)] :
        /\ \A i, j \in 1..Len(E) : i < j => f[i] < f[j]
        /\ \A i \in 1..Len(E) : A[f[i]] = E[i]

\* C10: the argument-subsequence assertion passes iff the expected tokens are
\* a (not necessarily contiguous) subsequence of the executed vector, in the
\* same relative order, repeated tokens at distinct positions; it fails with a
\* message otherwise; the empty expectation always passes.
C10_SubsequenceIff ==
    op = "argv_contains" =>
        /\ out.r \in {"pass", "fail"}
        /\ out.r = "pass" <=> IsSubsequence(arg.expected, arg.actual)
        /\ out.r = "fail" => out.msg # ""
        /\ Len(arg.expected) = 0 => out.r = "pass"

\* the assertion has failed on A = [a, -o, out, b] for E = [b, a]
C10_Witness ==
    /\ op = "argv_contains"
    /\ arg.actual = <<"a", "-o", "out", "b">>
    /\ arg.expected = <<"b", "a">>
    /\ out.r = "fail"

\* ------------------------------------------------------------------ C11
Reversed4(m) == <<m[4], m[3], m[2], m[1]>>

\* one of the IR-text markers shows in the decoded prefix
HasIrMarker(d) ==
    LET head == LStrip(Decode(d))
    IN \/ StartsWith(head, ModuleIdMarker)
       \/ StartsWith(head, SourceFilenameMarker)
       \/ Contains(SubSeq(head, 1, Min(120, Len(head))), TargetTripleMarker)

\* the kind the first matching rule gives the prefix d
FirstMatch(d) ==
    LET first4 == IF Len(d) >= 4 THEN <<d[1], d[2], d[3], d[4]>> ELSE <<>>
    IN IF first4 = <<127, 69, 76, 70>> THEN "ELF"
       ELSE IF first4 # <<>> /\ (first4 \in macho_magics \/ Reversed4(first4) \in macho_magics)
           THEN "MACHO"
       ELSE IF first4 = <<66, 67, 192, 222>> THEN "LLVM_BITCODE"
       ELSE IF HasIrMarker(d) THEN "LLVM_IR_TEXT"
       ELSE "UNKNOWN"

\* C11: detect_artifact_kind classifies a readable file by the first matching
\* rule on its first 64 bytes: the ELF magic gives ELF whatever follows, else
\* a Mach-O magic in either byte order gives MachO, else 'B','C',0xC0,0xDE
\* gives bitcode, else an IR-text marker in the decoded prefix gives IR-text,
\* else unknown; under 4 bytes the kind is never ELF, MachO or bitcode, the
\* empty file is unknown, and the call never raises.
C11_FirstMatchWins ==
    op = "detect" =>
        LET d == SubSeq(arg.data, 1, Min(PrefixLen, Len(arg.data)))
        IN /\ out.raised = ""
           /\ out.kind = FirstMatch(d)
           /\ Len(arg.data) < 4 => out.kind \notin {"ELF", "MACHO", "LLVM_BITCODE"}
           /\ Len(arg.data) = 0 => out.kind = "UNKNOWN"

\* a file of the bitcode magic followed by "target triple" has been classified
\* as bitcode
C11_Witness ==
    /\ op = "detect"
    /\ arg.data = BitcodeMagic \o TargetTripleMarker
    /\ out.kind = "LLVM_BITCODE"

\* ------------------------------------------------------------------ C12
\* The path an output-kind assertion targets: the result's output path
\* (default location), or the given path, taken from the working directory
\* of the run when it is relative (explicit location); <<>> when there is none.
KindTarget(a, r) ==
    IF a.kind = "output_kind" THEN r.output_path
    ELSE Some(IF a.path.abs THEN a.path ELSE P(r.run.cwd.abs, r.run.cwd.parts \o a.path.parts))

\* C12: an output-kind assertion (default or explicit location) whose target
\* path does not exist fails with the existence message and does not call the
\* classifier; the classifier is called only when the target exists, and the
\* assertion then passes iff the classified kind is the expected kind.
C12_ExistenceBeforeKind ==
    (op = "check" /\ arg.a.kind \in {"output_kind", "output_kind_at"}) =>
        LET t == KindTarget(arg.a, arg.res)
        IN /\ (~IsNone(t) /\ Get(t) \notin DOMAIN arg.fs) =>
                /\ out.r = "fail"
                /\ out.msg = "output does not exist: " \o Str(Get(t))
                /\ ~out.classified
           /\ out.classified => (~IsNone(t) /\ Get(t) \in DOMAIN arg.fs)
           /\ (~IsNone(t) /\ Get(t) \in DOMAIN arg.fs) =>
                LET info == detect_artifact_kind(arg.fs, Get(t))
                IN /\ out.classified
                   /\ out.r = "pass" <=> (info.raised = "" /\ info.kind = arg.a.akind)

\* the default-location assertion has failed on a missing output without
\* classifying
C12_Witness ==
    /\ op = "check"
    /\ arg.a.kind = "output_kind"
    /\ ~IsNone(arg.res.output_path)
    /\ Get(arg.res.output_path) \notin DOMAIN arg.fs
    /\ out.r = "fail"
    /\ ~out.classified

\* ------------------------------------------------------------------ C15
\* C15: CompilerRunner.run applies the timeout the caller supplied, whatever
\* its value (0 included), and the configured default of 20 only when none
\* was supplied; a child that runs longer than the applied timeout makes the
\* call raise the timeout instead of returning a RunResult; a child that ends
\* in time yields a RunResult with its exit code and streams, zero or not.
C15_TimeoutOverride ==
    op = "run" =>
        LET applied == IF arg.timeout_s = <<>> THEN 20 ELSE arg.timeout_s[1]
        IN /\ out.timeout = applied
           /\ arg.b.duration > applied =>
                /\ out.raised = "TimeoutExpired"
                /\ out.result = <<>>
           /\ arg.b.duration <= applied =>
                /\ out.raised = ""
                /\ out.result # <<>>
                /\ out.result[1].exit_code = arg.b.exit_code
                /\ out.result[1].stdout = arg.b.stdout
                /\ out.result[1].stderr = arg.b.stderr

\* ------------------------------------------------------------------ C14
\* The cases whose workspace is known: those reported and the one running.
Entered == 1..(IF ws = <<>> THEN Len(reports) ELSE idx)

\* The directory case i ran (or runs) in: the working directory of its child.
WorkspaceOf(i) == IF i <= Len(reports) THEN reports[i].result.run.cwd ELSE ws[1]

\* The directories directly under the root workspace.
CaseDirs == {q \in DOMAIN fs : q.abs /\ Len(q.parts) = 2 /\ q.parts[1] = "root"}

\* a directory of the root workspace whose name starts with name and "_"
PrefixedBy(d, name) ==
    \E x \in Suffixes : d = P(TRUE, <<"root", name \o "_" \o x>>)

\* where the child of case i finds the k-th source of its plan
SourcePath(i, k) ==
    LET src == cases[i].plan.sources[k]
    IN IF src.abs THEN src
       ELSE P(TRUE, WorkspaceOf(i).parts \o src.parts)

\* at most one case workspace exists, the running case's, and it is empty
\* when the case enters it
OneWorkspaceAtATime ==
    /\ Cardinality(CaseDirs) <= 1
    /\ ws = <<>> => CaseDirs = {}
    /\ ws # <<>> => CaseDirs = {ws[1]}
    /\ pc = "case" => \A q \in DOMAIN fs : ~IsUnder(q, ws[1])

\* C14: within one TestSuite.run each case runs in its own subdirectory of
\* the root workspace, named with the case name as prefix and different from
\* the subdirectory of every other case of the run, cases of one name
\* included; at most one case workspace exists at any time; two cases with a
\* source of the same relative name resolve it to different paths.
C14_WorkspacesAllDistinct ==
    /\ \A i \in Entered : PrefixedBy(WorkspaceOf(i), cases[i].name)
    /\ \A i, j \in Entered : i # j => WorkspaceOf(i) # WorkspaceOf(j)
    /\ OneWorkspaceAtATime
    /\ \A i, j \in Entered : i # j =>
          \A k \in 1..Len(cases[i].plan.sources), l \in 1..Len(cases[j].plan.sources) :
              (/\ ~cases[i].plan.sources[k].abs
               /\ cases[i].plan.sources[k] = cases[j].plan.sources[l])
              => SourcePath(i, k) # SourcePath(j, l)

\* C14 as amended: each case runs in a subdirectory of the root workspace
\* that is named with the case name as prefix, did not exist when the case
\* entered it and is empty then; at most one case workspace exists at any
\* time; cases of different names run in different subdirectories, while two
\* cases of one name may be given the same name one after the other, the
\* earlier directory being removed by then; a relative source is resolved
\* inside the case's own workspace (re-resolved in the argv when the plan has
\* an output, left to the child's working directory otherwise), so two cases
\* resolve the same relative name to different paths whenever their
\* workspaces differ.
C14_WorkspacePerCase ==
    /\ \A i \in Entered : PrefixedBy(WorkspaceOf(i), cases[i].name)
    /\ \A i, j \in Entered : cases[i].name # cases[j].name => WorkspaceOf(i) # WorkspaceOf(j)
    /\ OneWorkspaceAtATime
    /\ \A i \in 1..Len(reports) :
          \A k \in 1..Len(cases[i].plan.sources) :
              LET src == cases[i].plan.sources[k]
                  v == reports[i].result.run.argv[1 + k]
              IN /\ ~src.abs => IsUnder(SourcePath(i, k), WorkspaceOf(i))
                 /\ v = IF cases[i].plan.out # <<>> THEN Str(SourcePath(i, k)) ELSE Str(src)
    /\ \A i, j \in Entered : WorkspaceOf(i) # WorkspaceOf(j) =>
          \A k \in 1..Len(cases[i].plan.sources), l \in 1..Len(cases[j].plan.sources) :
              (/\ ~cases[i].plan.sources[k].abs
               /\ cases[i].plan.sources[k] = cases[j].plan.sources[l])
              => SourcePath(i, k) # SourcePath(j, l)

\* the second of two cases named "build" runs in the directory name the first
\* one had, and a third case of another name has run elsewhere
C14_Witness ==
    /\ Len(reports) = 3
    /\ cases[1].name = cases[2].name
    /\ cases[3].name # cases[1].name
    /\ WorkspaceOf(1) = WorkspaceOf(2)
    /\ WorkspaceOf(3) # WorkspaceOf(1)

\* ------------------------------------------------------------------ C13
\* the second run has returned its SuiteReport
BothReturned == op = "second" /\ pc = "returned"

====
